---- MODULE Spec2Model ----
(***************************************************************************)
(* State machine of the unified Intercom bridge (src/unnamed/part_001):    *)
(* Hyperswarm peer connections on one side, WebSocket sessions (relay      *)
(* protocol and Observatory protocol) on the other, with the topic table,  *)
(* the peer table, the agent registry, the message archive and the         *)
(* cross-protocol relay in between.                                        *)
(*                                                                         *)
(* Helpers are written as functions from a state record to a state record  *)
(* so that a handler is the composition of the calls its code makes.       *)
(* Event ids and the timestamps inside outgoing envelopes are left out;    *)
(* the timestamps stored in the tables are kept.  Arrays of capabilities   *)
(* are modelled as sets.                                                   *)
(***************************************************************************)
EXTENDS Naturals, Sequences, FiniteSets, TLC

VARIABLES
  authToken,      \* RELAY_AUTH_TOKEN (process.env.SC_BRIDGE_TOKEN || null)
  now,            \* the clock read by Date.now() / new Date()
  autoJoined,     \* the startup timer that joins AUTO_JOIN_TOPICS has fired
  peers,          \* Map publicKey -> peer record
  conns,          \* Hyperswarm connection objects: state, remote key, topic
  written,        \* conn -> what conn.write() has been given, in order
  topics,         \* Map topicKey -> topic record
  discoveries,    \* swarm: topic buffer -> number of live discovery sessions
  agents,         \* Map agentId -> agent record
  messages,       \* the archive array
  activityStats,  \* totalMessages, totalAgents, totalTopics
  clients,        \* Set of ws
  relayClients,   \* Map ws -> relayClientInfo (the keys; the info lives in sessions)
  relayChannels,  \* Map channelName -> Set of ws
  sessions,       \* per ws: readyState and the closure of wss.on('connection')
  sent,           \* ws -> what ws.send() has been given, in order
  archived,       \* history: every record ever passed to archiveMessage, in order
  steps,          \* history: number of handlers run so far
  last            \* history: the handler that ran last, its input and result

vars == <<authToken, now, autoJoined, peers, conns, written, topics, discoveries,
          agents, messages, activityStats, clients, relayClients, relayChannels,
          sessions, sent, archived, steps, last>>

(***************************************************************************)
(* Bounds of the model.                                                    *)
(***************************************************************************)
\* Archive capacity.  The source sets 1000; the model keeps the capacity
\* small so that eviction happens within the message budget.
MAX_MESSAGES == 2
\* Largest clock value.
MaxClock == 1
\* Handlers run (events of both transports, timer, clock) in a run.
MaxSteps == 5
\* WebSocket connections accepted in a run.
MaxWs == 2
\* Hyperswarm connections accepted in a run.
MaxConns == 2
\* Calls made when registerAgent is run on its own.
MaxRegistrations == 3
\* Handlers run in a run over the smaller alphabet of LongSpec.
MaxLongSteps == 6

\* Buffer.alloc(32) in getTopicKey / joinTopic
TOPIC_BUFFER_BYTES == 32

NULL == "<undefined>"
Truthy(v) == v # NULL /\ v # ""
Or(a, b) == IF Truthy(a) THEN a ELSE b      \* a || b on strings

Min(a, b) == IF a <= b THEN a ELSE b
Max(a, b) == IF a >= b THEN a ELSE b

\* The i-th WebSocket and the i-th Hyperswarm connection of a run.
WsId(i) == "ws-" \o ToString(i)
ConnId(i) == "conn-" \o ToString(i)
WsIds == {WsId(i) : i \in 1..MaxWs}
ConnIds == {ConnId(i) : i \in 1..MaxConns}
PeerKeys == {"pkA", "pkB"}

PUBLIC_CHANNELS ==
  {"0000intercom", "agent-marketplace", "agent-announce", "intercom-global",
   "agent-network", "sc-bridge-discovery"}

AUTO_JOIN_TOPICS ==
  <<"sc-bridge-discovery", "agent-marketplace", "agent-announce", "intercom-global",
    "agent-network", "0000intercom", "agents-services">>

\* Channel names the local clients use in the model.
ChannelNames == {"0000intercom", "agent-marketplace", "private-xyz"}

(***************************************************************************)
(* Maps                                                                    *)
(***************************************************************************)
Has(m, k) == k \in DOMAIN m
Put(m, k, v) == [x \in DOMAIN m \cup {k} |-> IF x = k THEN v ELSE m[x]]
Delete(m, k) == [x \in DOMAIN m \ {k} |-> m[x]]
EmptyMap == [x \in {} |-> NULL]
\* r.k of a parsed object, undefined when the key is absent
Get(r, k) == IF k \in DOMAIN r THEN r[k] ELSE NULL
GetOpt(r, k) == IF k \in DOMAIN r THEN <<r[k]>> ELSE <<>>

(***************************************************************************)
(* Topic keys                                                              *)
(***************************************************************************)
\* topicBuffer = Buffer.alloc(32); topicBuffer.write(name): the first 32 bytes
\* of the name, zero padded (the padding is determined by the bytes written).
TopicBuffer(name) == SubSeq(name, 1, Min(Len(name), TOPIC_BUFFER_BYTES))

\* crypto.discoveryKey followed by hex encoding: a keyed BLAKE2b digest,
\* modelled as an injective function of the 32-byte buffer.
discoveryKey(buffer) == <<"discoveryKey", buffer>>

getTopicKey(name) == discoveryKey(TopicBuffer(name))

(***************************************************************************)
(* The mutable state as one record; helpers map a state record to the      *)
(* state record after the call.                                            *)
(***************************************************************************)
State ==
  [now |-> now, peers |-> peers, conns |-> conns, written |-> written,
   topics |-> topics, discoveries |-> discoveries, agents |-> agents,
   messages |-> messages, activityStats |-> activityStats, clients |-> clients,
   relayClients |-> relayClients, relayChannels |-> relayChannels,
   sessions |-> sessions, sent |-> sent, archived |-> archived, calls |-> <<>>]

Commit(s) ==
  /\ peers' = s.peers
  /\ conns' = s.conns
  /\ written' = s.written
  /\ topics' = s.topics
  /\ discoveries' = s.discoveries
  /\ agents' = s.agents
  /\ messages' = s.messages
  /\ activityStats' = s.activityStats
  /\ clients' = s.clients
  /\ relayClients' = s.relayClients
  /\ relayChannels' = s.relayChannels
  /\ sessions' = s.sessions
  /\ sent' = s.sent
  /\ archived' = s.archived

IsOpen(s, ws) == s.sessions[ws].readyState = "OPEN"

\* ws.send(JSON.stringify(message))
Send(s, ws, message) == [s EXCEPT !.sent[ws] = Append(@, message)]

\* Mutant: the message overtakes what was sent to the session before.
broadcastToWebSocketClients_Overtakes(s, message) ==
  [s EXCEPT !.sent = [ws \in DOMAIN s.sent |->
      IF ws \in s.clients /\ IsOpen(s, ws)
      THEN <<message>> \o s.sent[ws]
      ELSE s.sent[ws]]]

broadcastToWebSocketClients(s, message) ==
  [s EXCEPT !.sent = [ws \in DOMAIN s.sent |->
      IF ws \in s.clients /\ IsOpen(s, ws)
      THEN Append(s.sent[ws], message)
      ELSE s.sent[ws]]]

broadcastToRelayClients(s, message, channelFilter) ==
  [s EXCEPT !.sent = [ws \in DOMAIN s.sent |->
      IF /\ ws \in s.relayClients
         /\ IsOpen(s, ws)
         /\ ~(Truthy(channelFilter) /\ channelFilter \notin s.sessions[ws].info.channels)
      THEN Append(s.sent[ws], message)
      ELSE s.sent[ws]]]

(***************************************************************************)
(* Topics                                                                  *)
(***************************************************************************)
Live(s, buffer) == IF Has(s.discoveries, buffer) THEN s.discoveries[buffer] ELSE 0

\* swarm.join(topicBuffer, {server, client})
SwarmJoin(s, buffer) == [s EXCEPT !.discoveries = Put(@, buffer, Live(s, buffer) + 1)]

\* topic.discovery.destroy()
DiscoveryDestroy(s, buffer) ==
  [s EXCEPT !.discoveries =
      IF Live(s, buffer) <= 1 THEN Delete(@, buffer) ELSE Put(@, buffer, Live(s, buffer) - 1)]

\* The calls a handler makes to joinTopic, leaveTopic and registerAgent are
\* noted in s.calls together with what they return.
Note(s, call) == [s EXCEPT !.calls = Append(@, call)]

\* Mutant: a new topic is recorded and announced but not counted.
JoinNewTopic_DoesNotCount(s, name, server, client) ==
  LET topicBuffer == TopicBuffer(name)
      topicKey == getTopicKey(name)
      s1 == SwarmJoin(s, topicBuffer)
      s2 == [s1 EXCEPT !.topics = Put(@, topicKey,
                [name |-> name, key |-> topicKey, peers |-> {}, joinedAt |-> s.now,
                 server |-> server, client |-> client, messageCount |-> 0,
                 lastActivity |-> s.now])]
      s3 == broadcastToWebSocketClients(s2,
                [type |-> "topic-joined", payload |-> [name |-> name, key |-> topicKey]])
  IN broadcastToRelayClients(s3, [type |-> "channel_joined", channel |-> name], NULL)

\* joinTopic past its "already joined" test
JoinNewTopic(s, name, server, client) ==
  LET topicBuffer == TopicBuffer(name)
      topicKey == getTopicKey(name)
      s1 == SwarmJoin(s, topicBuffer)
      s2 == [s1 EXCEPT !.topics = Put(@, topicKey,
                [name |-> name, key |-> topicKey, peers |-> {}, joinedAt |-> s.now,
                 server |-> server, client |-> client, messageCount |-> 0,
                 lastActivity |-> s.now])]
      s3 == broadcastToWebSocketClients(s2,
                [type |-> "topic-joined", payload |-> [name |-> name, key |-> topicKey]])
      s4 == broadcastToRelayClients(s3, [type |-> "channel_joined", channel |-> name], NULL)
  IN [s4 EXCEPT !.activityStats.totalTopics = @ + 1]

JoinCall(s, name) ==
  [fn |-> "joinTopic", name |-> name, key |-> getTopicKey(name),
   existed |-> Has(s.topics, getTopicKey(name))]

\* Mutant: joinTopic without its "already joined" test.
joinTopic_Resubscribes(s, name, server, client) ==
  Note(JoinNewTopic(s, name, server, client), JoinCall(s, name))

joinTopic(s, name, server, client) ==
  IF Has(s.topics, getTopicKey(name))
  THEN Note(s, JoinCall(s, name))
  ELSE Note(JoinNewTopic(s, name, server, client), JoinCall(s, name))

leaveTopic(s, name) ==
  LET topicKey == getTopicKey(name)
      s1 == DiscoveryDestroy(s, TopicBuffer(s.topics[topicKey].name))
      s2 == [s1 EXCEPT !.topics = Delete(@, topicKey)]
      s3 == broadcastToWebSocketClients(s2,
                [type |-> "topic-left", payload |-> [name |-> name, key |-> topicKey]])
  IN IF ~Has(s.topics, topicKey)
     THEN Note(s, [fn |-> "leaveTopic", name |-> name, ok |-> FALSE])
     ELSE Note(s3, [fn |-> "leaveTopic", name |-> name, ok |-> TRUE])

(***************************************************************************)
(* Agent registry                                                          *)
(*                                                                         *)
(* An optional array or object (capabilities, topics, metadata) is <<>>    *)
(* when it is undefined and <<v>> when it is given; an optional string is  *)
(* NULL when it is undefined.                                              *)
(***************************************************************************)
Given(opt) == opt # <<>>
ValueOr(opt, default) == IF Given(opt) THEN opt[1] ELSE default

\* { ...a, ...b }
Spread(a, b) == [k \in DOMAIN a \cup DOMAIN b |-> IF k \in DOMAIN b THEN b[k] ELSE a[k]]

AgentData(id, name, type, capabilities, publicKey, agentTopics, metadata) ==
  [id |-> id, name |-> name, type |-> type, capabilities |-> capabilities,
   publicKey |-> publicKey, topics |-> agentTopics, metadata |-> metadata]

\* The create branch of registerAgent
CreatedAgent(agentId, agentData, t) ==
  [id |-> agentId,
   name |-> Or(agentData.name, "Unknown Agent"),
   type |-> Or(agentData.type, "unknown"),
   capabilities |-> ValueOr(agentData.capabilities, {}),
   publicKey |-> Or(agentData.publicKey, agentId),
   topics |-> ValueOr(agentData.topics, {}),
   firstSeen |-> t,
   lastSeen |-> t,
   metadata |-> ValueOr(agentData.metadata, EmptyMap)]

\* Mutant: the update branch uniting the capabilities instead of replacing them.
UpdatedAgent_UnitesCapabilities(existing, agentData, t) ==
  [existing EXCEPT
     !.lastSeen = t,
     !.name = IF Truthy(agentData.name) THEN agentData.name ELSE @,
     !.type = IF Truthy(agentData.type) THEN agentData.type ELSE @,
     !.capabilities =
        IF Given(agentData.capabilities) THEN @ \cup agentData.capabilities[1] ELSE @,
     !.topics = IF Given(agentData.topics) THEN @ \cup agentData.topics[1] ELSE @,
     !.metadata = IF Given(agentData.metadata) THEN Spread(@, agentData.metadata[1]) ELSE @]

\* Mutant: the update branch replacing the topics instead of uniting them.
UpdatedAgent_ReplacesTopics(existing, agentData, t) ==
  [existing EXCEPT
     !.lastSeen = t,
     !.name = IF Truthy(agentData.name) THEN agentData.name ELSE @,
     !.type = IF Truthy(agentData.type) THEN agentData.type ELSE @,
     !.capabilities = IF Given(agentData.capabilities) THEN agentData.capabilities[1] ELSE @,
     !.topics = IF Given(agentData.topics) THEN agentData.topics[1] ELSE @,
     !.metadata = IF Given(agentData.metadata) THEN Spread(@, agentData.metadata[1]) ELSE @]

\* The update branch of registerAgent
UpdatedAgent(existing, agentData, t) ==
  [existing EXCEPT
     !.lastSeen = t,
     !.name = IF Truthy(agentData.name) THEN agentData.name ELSE @,
     !.type = IF Truthy(agentData.type) THEN agentData.type ELSE @,
     !.capabilities = IF Given(agentData.capabilities) THEN agentData.capabilities[1] ELSE @,
     !.topics = IF Given(agentData.topics) THEN @ \cup agentData.topics[1] ELSE @,
     !.metadata = IF Given(agentData.metadata) THEN Spread(@, agentData.metadata[1]) ELSE @]

\* Mutant: agent-discovered is broadcast for an updated record as well.
registerAgent_AnnouncesUpdates(s, agentData) ==
  LET agentId == Or(agentData.id, agentData.publicKey)
      created == CreatedAgent(agentId, agentData, s.now)
      s1 == [s EXCEPT !.agents = Put(@, agentId, created),
                      !.activityStats.totalAgents = @ + 1]
      s2 == [s EXCEPT !.agents[agentId] = UpdatedAgent(@, agentData, s.now)]
      call == [fn |-> "registerAgent", agentId |-> agentId, data |-> agentData,
               before |-> GetOpt(s.agents, agentId)]
  IN IF ~Truthy(agentId) THEN s
     ELSE IF Has(s.agents, agentId)
          THEN Note(broadcastToWebSocketClients(s2,
                       [type |-> "agent-discovered", payload |-> s2.agents[agentId]]), call)
          ELSE Note(broadcastToWebSocketClients(s1,
                       [type |-> "agent-discovered", payload |-> created]), call)

\* Mutant: an update of a known agent is counted as a discovery too.
registerAgent_CountsUpdates(s, agentData) ==
  LET agentId == Or(agentData.id, agentData.publicKey)
      created == CreatedAgent(agentId, agentData, s.now)
      s1 == [s EXCEPT !.agents = Put(@, agentId, created),
                      !.activityStats.totalAgents = @ + 1]
      call == [fn |-> "registerAgent", agentId |-> agentId, data |-> agentData,
               before |-> GetOpt(s.agents, agentId)]
  IN IF ~Truthy(agentId) THEN s
     ELSE IF Has(s.agents, agentId)
          THEN Note([s EXCEPT !.agents[agentId] = UpdatedAgent(@, agentData, s.now),
                              !.activityStats.totalAgents = @ + 1], call)
          ELSE Note(broadcastToWebSocketClients(s1,
                       [type |-> "agent-discovered", payload |-> created]), call)

registerAgent(s, agentData) ==
  LET agentId == Or(agentData.id, agentData.publicKey)
      created == CreatedAgent(agentId, agentData, s.now)
      s1 == [s EXCEPT !.agents = Put(@, agentId, created),
                      !.activityStats.totalAgents = @ + 1]
      call == [fn |-> "registerAgent", agentId |-> agentId, data |-> agentData,
               before |-> GetOpt(s.agents, agentId)]
  IN IF ~Truthy(agentId) THEN s
     ELSE IF Has(s.agents, agentId)
          THEN Note([s EXCEPT !.agents[agentId] = UpdatedAgent(@, agentData, s.now)], call)
          ELSE Note(broadcastToWebSocketClients(s1,
                       [type |-> "agent-discovered", payload |-> created]), call)

(***************************************************************************)
(* Message archive                                                         *)
(***************************************************************************)
\* toISOString().slice(0, 13): the hour a millisecond clock value falls in
MS_PER_HOUR == 3600000
HourOf(t) == t \div MS_PER_HOUR

\* messages.push(message), then messages.shift() when over capacity
Pushed(archive, message) ==
  LET pushed == Append(archive, message)
  IN IF Len(pushed) > MAX_MESSAGES THEN Tail(pushed) ELSE pushed

\* Mutant: over capacity the newest record is dropped (pop for shift).
archiveMessage_DropsNewest(s, message) ==
  LET pushed == Append(s.messages, message)
  IN [s EXCEPT !.messages = IF Len(pushed) > MAX_MESSAGES
                            THEN SubSeq(pushed, 1, Len(pushed) - 1)
                            ELSE pushed,
               !.archived = Append(@, message),
               !.activityStats.totalMessages = @ + 1]

archiveMessage(s, message) ==
  LET kept == Pushed(s.messages, message)
      hour == HourOf(s.now)
      bucket == IF Has(s.activityStats.hourlyStats, hour)
                THEN s.activityStats.hourlyStats[hour]
                ELSE [messages |-> 0, agents |-> {}]
  IN [s EXCEPT !.messages = kept,
               !.archived = Append(@, message),
               !.activityStats.totalMessages = @ + 1,
               !.activityStats.hourlyStats =
                   Put(@, hour, [bucket EXCEPT !.messages = @ + 1])]

(***************************************************************************)
(* Cross-protocol relay                                                    *)
(***************************************************************************)
bridgePublicKey == "pkBridge"

\* WebSocket relay -> Hyperswarm, past the allow-list test
WriteToPeers(s, channelName, message, fromAgentId) ==
  LET hyperswarmMessage ==
        [type |-> Or(Get(message, "type"), "message"),
         payload |-> Spread([source |-> Or(fromAgentId, "relay"), channel |-> channelName],
                            message)]
      s1 == [s EXCEPT !.written = [c \in DOMAIN s.written |->
                IF \E k \in DOMAIN s.peers :
                      s.peers[k].conn = c /\ s.conns[c].state = "open"
                THEN Append(s.written[c], hyperswarmMessage)
                ELSE s.written[c]]]
  IN archiveMessage(s1, hyperswarmMessage)

\* Mutant: the relay without its allow-list test.
relayToHyperswarm_RelaysAll(s, channelName, message, fromAgentId) ==
  WriteToPeers(s, channelName, message, fromAgentId)

relayToHyperswarm(s, channelName, message, fromAgentId) ==
  IF channelName \notin PUBLIC_CHANNELS
  THEN s
  ELSE WriteToPeers(s, channelName, message, fromAgentId)

\* Mutant: the message is relayed under the topic of its connection.
relayToWebSocketRelay_UnderOwnTopic(s, topicName, message, fromPublicKey) ==
  LET relayMessage ==
        [type |-> "sidechannel_message", channel |-> message.origin,
         from |-> Or(fromPublicKey, bridgePublicKey), message |-> message]
  IN IF message.origin \notin PUBLIC_CHANNELS
     THEN s
     ELSE broadcastToRelayClients(s, relayMessage, message.origin)

\* Hyperswarm -> WebSocket relay
relayToWebSocketRelay(s, topicName, message, fromPublicKey) ==
  LET relayMessage ==
        [type |-> "sidechannel_message", channel |-> topicName,
         from |-> Or(fromPublicKey, bridgePublicKey), message |-> message]
  IN IF topicName \notin PUBLIC_CHANNELS
     THEN s
     ELSE broadcastToRelayClients(s, relayMessage, topicName)

(***************************************************************************)
(* Hyperswarm connections                                                  *)
(***************************************************************************)
\* swarm.on('connection', (conn, info) => ...): conn is a fresh connection
\* object; topic is the topic over which the swarm found the peer (the
\* handler does not read it).
OnConnection(s, conn, peerId, topic) ==
  LET s1 == [s EXCEPT
               !.conns[conn] = [state |-> "open", publicKey |-> peerId, topic |-> topic],
               !.peers = Put(@, peerId,
                   [conn |-> conn, publicKey |-> peerId, connectedAt |-> s.now,
                    lastSeen |-> s.now, topics |-> {}])]
      s2 == broadcastToWebSocketClients(s1,
               [type |-> "agent-join", payload |-> [agentId |-> peerId, publicKey |-> peerId]])
  IN registerAgent(s2,
        AgentData(peerId, NULL, "hyperswarm-peer", <<>>, peerId, <<{}>>, <<>>))

\* Mutant: the announced agent is always registered under the peer's key.
AnnouncedId_AlwaysKey(payload, peerId) == peerId

\* id: msg.payload.agentId || peerId
AnnouncedId(payload, peerId) == Or(Get(payload, "agentId"), peerId)

\* conn.on('data'): data is what arrived; seq numbers the messages of a run
\* and origin is the topic of the connection (history fields of the message).
OnData(s, conn, data, seq) ==
  LET peerId == s.conns[conn].publicKey
      tag == [seq |-> seq, origin |-> s.conns[conn].topic]
      msg == IF data.json
             THEN Spread(data.value, tag)
             ELSE Spread([type |-> "message", payload |-> [source |-> peerId, raw |-> TRUE]],
                         tag)
      s1 == IF Has(s.peers, peerId) THEN [s EXCEPT !.peers[peerId].lastSeen = s.now] ELSE s
      payload == msg.payload
      s2 == IF Get(msg, "type") = "agent-announce" /\ Has(msg, "payload")
            THEN registerAgent(s1,
                    AgentData(AnnouncedId(payload, peerId), Get(payload, "name"),
                              Get(payload, "type"), GetOpt(payload, "capabilities"),
                              peerId, <<>>, <<payload>>))
            ELSE s1
      s3 == archiveMessage(s2, msg)
      s4 == broadcastToWebSocketClients(s3, msg)
  IN relayToWebSocketRelay(s4, "0000intercom", msg, peerId)

\* Mutant: the close handler also forgets the peer's agent record.
OnClose_ForgetsAgent(s, conn) ==
  LET peerId == s.conns[conn].publicKey
      s1 == [s EXCEPT !.conns[conn].state = "closed", !.peers = Delete(@, peerId),
                      !.agents = Delete(@, peerId)]
  IN broadcastToWebSocketClients(s1, [type |-> "agent-leave", payload |-> [agentId |-> peerId]])

\* conn.on('close')
OnClose(s, conn) ==
  LET peerId == s.conns[conn].publicKey
      s1 == [s EXCEPT !.conns[conn].state = "closed", !.peers = Delete(@, peerId)]
  IN broadcastToWebSocketClients(s1, [type |-> "agent-leave", payload |-> [agentId |-> peerId]])

(***************************************************************************)
(* WebSocket sessions                                                      *)
(***************************************************************************)
ENABLE_RELAY_AUTH == Truthy(authToken)

NewSession(ws) ==
  [readyState |-> "CONNECTING", protocolDetected |-> FALSE, isRelayClient |-> FALSE,
   info |-> [id |-> ws, authenticated |-> FALSE, channels |-> {}, agentId |-> NULL]]

\* wss.on('connection')
OnWsConnection(s, ws) ==
  LET s1 == [s EXCEPT
               !.clients = @ \cup {ws},
               !.sessions[ws] =
                  [readyState |-> "OPEN", protocolDetected |-> FALSE, isRelayClient |-> FALSE,
                   info |-> [id |-> ws, authenticated |-> ~ENABLE_RELAY_AUTH,
                             channels |-> {}, agentId |-> NULL]]]
  IN Send(s1, ws, [type |-> "welcome", bridge |-> bridgePublicKey, mode |-> "unified"])

RelayError(s, ws, text) == Send(s, ws, [type |-> "error", error |-> text])

\* relayChannels.get(channel).delete(ws), dropping the channel when it empties
RemoveFromChannel(relayChans, channel, ws) ==
  IF ~Has(relayChans, channel) THEN relayChans
  ELSE IF relayChans[channel] \ {ws} = {} THEN Delete(relayChans, channel)
  ELSE [relayChans EXCEPT ![channel] = @ \ {ws}]

\* Mutant: the join subscribes to the topic of any channel.
RelayJoin_JoinsAnyTopic(s, ws, channel, agentId) ==
  LET s1 == [s EXCEPT
               !.sessions[ws].info.channels = @ \cup {channel},
               !.sessions[ws].info.agentId = IF Truthy(agentId) THEN agentId ELSE @,
               !.relayChannels =
                  Put(@, channel, (IF Has(@, channel) THEN @[channel] ELSE {}) \cup {ws})]
      s2 == joinTopic(s1, channel, TRUE, TRUE)
  IN Send(s2, ws, [type |-> "joined", channel |-> channel])

RelayJoin(s, ws, channel, agentId) ==
  LET s1 == [s EXCEPT
               !.sessions[ws].info.channels = @ \cup {channel},
               !.sessions[ws].info.agentId = IF Truthy(agentId) THEN agentId ELSE @,
               !.relayChannels =
                  Put(@, channel, (IF Has(@, channel) THEN @[channel] ELSE {}) \cup {ws})]
      s2 == IF channel \in PUBLIC_CHANNELS THEN joinTopic(s1, channel, TRUE, TRUE) ELSE s1
  IN Send(s2, ws, [type |-> "joined", channel |-> channel])

\* Mutant: the leave forgets the channel in the session's own set only.
RelayLeave_KeepsClientSet(s, ws, channel) ==
  LET s1 == [s EXCEPT !.sessions[ws].info.channels = @ \ {channel}]
  IN Send(s1, ws, [type |-> "left", channel |-> channel])

RelayLeave(s, ws, channel) ==
  LET s1 == [s EXCEPT
               !.sessions[ws].info.channels = @ \ {channel},
               !.relayChannels = RemoveFromChannel(@, channel, ws)]
  IN Send(s1, ws, [type |-> "left", channel |-> channel])

\* Mutant: the sender is served with its own message as well.
RelaySendJoined_EchoesToSender(s, ws, channel, msg) ==
  LET clientInfo == s.sessions[ws].info
      from == Or(clientInfo.agentId, clientInfo.id)
      hasMessage == Has(msg, "message")
      message == msg.message
      s1 == IF hasMessage /\ Get(message, "type") = "discovery"
            THEN registerAgent(s,
                    AgentData(Get(message, "agentId"), Get(message, "name"), "relay-agent",
                              GetOpt(message, "capabilities"), NULL, <<>>, <<message>>))
            ELSE s
      envelope == Spread([type |-> "sidechannel_message", channel |-> channel, from |-> from],
                         IF hasMessage THEN [message |-> message] ELSE EmptyMap)
      recipients == IF Has(s1.relayChannels, channel) THEN s1.relayChannels[channel] ELSE {}
      s2 == [s1 EXCEPT !.sent = [c \in DOMAIN s1.sent |->
                IF c \in recipients /\ IsOpen(s1, c)
                THEN Append(s1.sent[c], envelope)
                ELSE s1.sent[c]]]
      s3 == relayToHyperswarm(s2, channel, message, clientInfo.agentId)
      record == Spread([type |-> "relay-message", channel |-> channel, from |-> from,
                        timestamp |-> s.now],
                       IF hasMessage THEN [message |-> message] ELSE EmptyMap)
  IN IF ~hasMessage /\ channel \in PUBLIC_CHANNELS
     THEN s2
     ELSE archiveMessage(IF hasMessage THEN s3 ELSE s2, record)

\* The send / publish case past its "not joined" test.  A send without a
\* message on a public channel throws in relayToHyperswarm (message.type); the
\* catch of ws.on('message') swallows it after the local recipients have been
\* served.
RelaySendJoined(s, ws, channel, msg) ==
  LET clientInfo == s.sessions[ws].info
      from == Or(clientInfo.agentId, clientInfo.id)
      hasMessage == Has(msg, "message")
      message == msg.message
      s1 == IF hasMessage /\ Get(message, "type") = "discovery"
            THEN registerAgent(s,
                    AgentData(Get(message, "agentId"), Get(message, "name"), "relay-agent",
                              GetOpt(message, "capabilities"), NULL, <<>>, <<message>>))
            ELSE s
      envelope == Spread([type |-> "sidechannel_message", channel |-> channel, from |-> from],
                         IF hasMessage THEN [message |-> message] ELSE EmptyMap)
      recipients == IF Has(s1.relayChannels, channel) THEN s1.relayChannels[channel] ELSE {}
      s2 == [s1 EXCEPT !.sent = [c \in DOMAIN s1.sent |->
                IF c \in recipients /\ c # ws /\ IsOpen(s1, c)
                THEN Append(s1.sent[c], envelope)
                ELSE s1.sent[c]]]
      s3 == relayToHyperswarm(s2, channel, message, clientInfo.agentId)
      record == Spread([type |-> "relay-message", channel |-> channel, from |-> from,
                        timestamp |-> s.now],
                       IF hasMessage THEN [message |-> message] ELSE EmptyMap)
  IN IF ~hasMessage /\ channel \in PUBLIC_CHANNELS
     THEN s2
     ELSE archiveMessage(IF hasMessage THEN s3 ELSE s2, record)

NotJoined(s, ws, channel) ==
  Send(s, ws, [type |-> "error", error |-> "Not joined to channel", channel |-> channel])

\* Mutant: a send on a channel outside the allow-list is answered with an
\* error before it is passed on.
RelaySend_RejectsPrivate(s, ws, channel, msg) ==
  IF channel \notin s.sessions[ws].info.channels
  THEN NotJoined(s, ws, channel)
  ELSE IF channel \notin PUBLIC_CHANNELS
       THEN RelaySendJoined(RelayError(s, ws, "Channel is not public"), ws, channel, msg)
       ELSE RelaySendJoined(s, ws, channel, msg)

\* Mutant: a send is accepted without the "not joined" test.
RelaySend_SkipsJoinTest(s, ws, channel, msg) == RelaySendJoined(s, ws, channel, msg)

RelaySend(s, ws, channel, msg) ==
  IF channel \notin s.sessions[ws].info.channels
  THEN NotJoined(s, ws, channel)
  ELSE RelaySendJoined(s, ws, channel, msg)

\* The switch of handleRelayMessage, past the authentication check
RelayAction(s, ws, msg) ==
  LET action == Get(msg, "action")
      channel == Get(msg, "channel")
  IN CASE action = "join" -> RelayJoin(s, ws, channel, Get(msg, "agentId"))
       [] action = "leave" -> RelayLeave(s, ws, channel)
       [] action \in {"send", "publish"} -> RelaySend(s, ws, channel, msg)
       [] OTHER -> Send(s, ws, [type |-> "error", error |-> "Unknown action",
                               action |-> action])

Authenticated(s, ws) == [s EXCEPT !.sessions[ws].info.authenticated = TRUE]

\* Mutant: any token authenticates.
handleRelayMessage_AnyToken(s, ws, msg) ==
  LET token == Get(msg, "token")
      gate == ENABLE_RELAY_AUTH /\ ~s.sessions[ws].info.authenticated
      s1 == IF gate /\ Truthy(token) THEN Authenticated(s, ws) ELSE s
  IN IF gate /\ ~Truthy(token)
     THEN RelayError(s, ws, "Authentication required")
     ELSE IF ~s1.sessions[ws].info.authenticated
          THEN RelayError(s1, ws, "Not authenticated")
          ELSE RelayAction(s1, ws, msg)

\* Mutant: the actions are served without the authentication check.
handleRelayMessage_ServesUnauthenticated(s, ws, msg) == RelayAction(s, ws, msg)

handleRelayMessage(s, ws, msg) ==
  LET token == Get(msg, "token")
      gate == ENABLE_RELAY_AUTH /\ ~s.sessions[ws].info.authenticated
      s1 == IF gate /\ token = authToken THEN Authenticated(s, ws) ELSE s
  IN IF gate /\ token # authToken
     THEN RelayError(s, ws, "Authentication required")
     ELSE IF ~s1.sessions[ws].info.authenticated
          THEN RelayError(s1, ws, "Not authenticated")
          ELSE RelayAction(s1, ws, msg)

Names(s) == {s.topics[k].name : k \in DOMAIN s.topics}

handleObservatoryMessage(s, ws, msg) ==
  LET type == Get(msg, "type")
      named == Has(msg, "payload") /\ Truthy(Get(msg.payload, "name"))
      name == msg.payload.name
  IN CASE type = "ping" -> Send(s, ws, [type |-> "pong"])
       [] type = "list_peers" ->
            Send(s, ws, [type |-> "peer-list", peers |-> DOMAIN s.peers])
       [] type = "list_topics" ->
            Send(s, ws, [type |-> "topic-list", topics |-> Names(s)])
       [] type = "list_agents" ->
            Send(s, ws, [type |-> "agent-list", agents |-> DOMAIN s.agents])
       [] type = "join_topic" ->
            IF named
            THEN Send(joinTopic(s, name, TRUE, TRUE), ws,
                      [type |-> "topic-joined", topic |-> name])
            ELSE s
       [] type = "leave_topic" ->
            IF named
            THEN Send(leaveTopic(s, name), ws, [type |-> "topic-left", topic |-> name])
            ELSE s
       [] type = "get_stats" ->
            Send(s, ws, [type |-> "stats", peers |-> DOMAIN s.peers, topics |-> Names(s),
                         agents |-> DOMAIN s.agents, messages |-> Len(s.messages)])
       [] type = "get_activity" ->
            Send(s, ws, [type |-> "activity", activity |-> s.activityStats])
       [] OTHER -> s

\* Mutant: the protocol is read off every message, not only the first.
OnWsMessage_DetectsEachTime(s, ws, data, seq) ==
  LET msg == IF Has(data.value, "message")
             THEN [data.value EXCEPT !.message = Spread(@, [seq |-> seq])]
             ELSE data.value
      relay == Truthy(Get(msg, "action"))
      s1 == [s EXCEPT
               !.sessions[ws].protocolDetected = TRUE,
               !.sessions[ws].isRelayClient = relay,
               !.relayClients = IF relay THEN @ \cup {ws} ELSE @]
  IN IF ~data.parses THEN s
     ELSE IF relay THEN handleRelayMessage(s1, ws, msg)
     ELSE handleObservatoryMessage(s1, ws, msg)

\* ws.on('message'): data.parses is whether JSON.parse accepts the bytes; seq
\* numbers the messages of a run (a history field of the message).
\* Mutant: a message that does not parse ends the session.
OnWsMessage_ClosesOnParseError(s, ws, data, seq) ==
  LET msg == IF Has(data.value, "message")
             THEN [data.value EXCEPT !.message = Spread(@, [seq |-> seq])]
             ELSE data.value
      relay == IF s.sessions[ws].protocolDetected
               THEN s.sessions[ws].isRelayClient
               ELSE Truthy(Get(msg, "action"))
      s1 == [s EXCEPT
               !.sessions[ws].protocolDetected = TRUE,
               !.sessions[ws].isRelayClient = relay,
               !.relayClients = IF relay THEN @ \cup {ws} ELSE @]
  IN IF ~data.parses
     THEN [s EXCEPT !.sessions[ws].readyState = "CLOSED", !.clients = @ \ {ws}]
     ELSE IF relay THEN handleRelayMessage(s1, ws, msg)
     ELSE handleObservatoryMessage(s1, ws, msg)

OnWsMessage(s, ws, data, seq) ==
  LET msg == IF Has(data.value, "message")
             THEN [data.value EXCEPT !.message = Spread(@, [seq |-> seq])]
             ELSE data.value
      relay == IF s.sessions[ws].protocolDetected
               THEN s.sessions[ws].isRelayClient
               ELSE Truthy(Get(msg, "action"))
      s1 == [s EXCEPT
               !.sessions[ws].protocolDetected = TRUE,
               !.sessions[ws].isRelayClient = relay,
               !.relayClients = IF relay THEN @ \cup {ws} ELSE @]
  IN IF ~data.parses THEN s
     ELSE IF relay THEN handleRelayMessage(s1, ws, msg)
     ELSE handleObservatoryMessage(s1, ws, msg)

\* Mutant: the close handler leaves the session in its channels' client sets.
OnWsClose_KeepsChannels(s, ws) ==
  LET s1 == [s EXCEPT !.sessions[ws].readyState = "CLOSED", !.clients = @ \ {ws}]
  IN IF s.sessions[ws].isRelayClient
     THEN [s1 EXCEPT !.relayClients = @ \ {ws}]
     ELSE s1

\* ws.on('close')
OnWsClose(s, ws) ==
  LET RECURSIVE Leave(_, _)
      Leave(relayChans, channels) ==
        IF channels = {} THEN relayChans
        ELSE LET channel == CHOOSE c \in channels : TRUE
             IN Leave(RemoveFromChannel(relayChans, channel, ws), channels \ {channel})
      s1 == [s EXCEPT !.sessions[ws].readyState = "CLOSED", !.clients = @ \ {ws}]
  IN IF s.sessions[ws].isRelayClient
     THEN [s1 EXCEPT !.relayChannels = Leave(@, s.sessions[ws].info.channels),
                     !.relayClients = @ \ {ws}]
     ELSE s1

(***************************************************************************)
(* What the two transports deliver in the model                            *)
(***************************************************************************)
AnnouncePayloads ==
  { [capabilities |-> {"chat"}],
    [name |-> "alice", capabilities |-> {"trade"}],
    [agentId |-> "agent-1", capabilities |-> {"chat"}] }

PeerInputs ==
  { [json |-> FALSE] }
  \cup { [json |-> TRUE, value |-> [type |-> "message", payload |-> [text |-> "hi"]]] }
  \cup { [json |-> TRUE, value |-> [type |-> "agent-announce", payload |-> p]] :
            p \in AnnouncePayloads }

\* Topics over which the swarm finds peers in the model.
PeerTopics == {"agent-marketplace", "agents-services", "private-xyz"}

RelayInputs ==
  { [action |-> "join", channel |-> c] : c \in ChannelNames }
  \cup { [action |-> "leave", channel |-> c] : c \in ChannelNames }
  \cup { [action |-> "send", channel |-> c, message |-> [text |-> "hi"]] :
            c \in ChannelNames }
  \cup { [action |-> "join", channel |-> "0000intercom", token |-> "secret"],
         [action |-> "join", channel |-> "0000intercom", token |-> "wrong"],
         [action |-> "join", channel |-> "private-xyz", agentId |-> "agent-1"],
         [action |-> "send", channel |-> "0000intercom", token |-> "secret",
          message |-> [text |-> "hi"]],
         [action |-> "publish", channel |-> "private-xyz",
          message |-> [type |-> "discovery", agentId |-> "agent-1",
                       capabilities |-> {"trade"}]],
         [action |-> "status"] }

ObservatoryInputs ==
  { [type |-> "ping"], [type |-> "join_topic"] }
  \cup { [type |-> t, payload |-> [name |-> c]] :
            t \in {"join_topic", "leave_topic"}, c \in {"agent-marketplace", "private-xyz"} }

WsInputs ==
  { [parses |-> FALSE] }
  \cup { [parses |-> TRUE, value |-> v] : v \in RelayInputs \cup ObservatoryInputs }

(***************************************************************************)
(* The state machine                                                       *)
(***************************************************************************)
Init ==
  /\ authToken \in {NULL, "secret"}
  /\ now = 0
  /\ autoJoined = FALSE
  /\ peers = EmptyMap
  /\ conns = [c \in ConnIds |-> [state |-> "idle", publicKey |-> NULL, topic |-> NULL]]
  /\ written = [c \in ConnIds |-> <<>>]
  /\ topics = EmptyMap
  /\ discoveries = EmptyMap
  /\ agents = EmptyMap
  /\ messages = <<>>
  /\ activityStats = [startTime |-> 0, totalMessages |-> 0, totalAgents |-> 0,
                      totalTopics |-> 0, hourlyStats |-> EmptyMap]
  /\ clients = {}
  /\ relayClients = {}
  /\ relayChannels = EmptyMap
  /\ sessions = [ws \in WsIds |-> NewSession(ws)]
  /\ sent = [ws \in WsIds |-> <<>>]
  /\ archived = <<>>
  /\ steps = 0
  /\ last = [op |-> "init", calls |-> <<>>]

\* The handler ran to its end in state s.
RanWithin(s, what, bound) ==
  /\ steps < bound
  /\ steps' = steps + 1
  /\ Commit(s)
  /\ last' = Spread(what, [calls |-> s.calls])

Ran(s, what) == RanWithin(s, what, MaxSteps)

Tick ==
  /\ now < MaxClock
  /\ steps < MaxSteps
  /\ steps' = steps + 1
  /\ now' = now + 1
  /\ last' = [op |-> "tick", calls |-> <<>>]
  /\ UNCHANGED <<authToken, autoJoined, peers, conns, written, topics, discoveries,
                 agents, messages, activityStats, clients, relayClients, relayChannels,
                 sessions, sent, archived>>

\* setTimeout(() => AUTO_JOIN_TOPICS.forEach(topic => joinTopic(topic)), 1000)
AutoJoin ==
  LET RECURSIVE JoinAll(_, _)
      JoinAll(s, i) ==
        IF i > Len(AUTO_JOIN_TOPICS) THEN s
        ELSE JoinAll(joinTopic(s, AUTO_JOIN_TOPICS[i], TRUE, TRUE), i + 1)
  IN /\ ~autoJoined
     /\ autoJoined' = TRUE
     /\ Ran(JoinAll(State, 1), [op |-> "autoJoin"])
     /\ UNCHANGED <<authToken, now>>

PeerConnect ==
  \E peerId \in PeerKeys, topic \in PeerTopics :
    LET n == Cardinality({c \in ConnIds : conns[c].state # "idle"})
        conn == ConnId(n + 1)
    IN /\ n < MaxConns
       /\ topic \in Names(State)
       /\ Ran(OnConnection(State, conn, peerId, topic),
              [op |-> "connection", conn |-> conn, peerId |-> peerId])
       /\ UNCHANGED <<authToken, now, autoJoined>>

PeerData ==
  \E conn \in ConnIds, data \in PeerInputs :
    /\ conns[conn].state = "open"
    /\ Ran(OnData(State, conn, data, steps + 1),
           [op |-> "data", conn |-> conn, data |-> data])
    /\ UNCHANGED <<authToken, now, autoJoined>>

PeerClose ==
  \E conn \in ConnIds :
    /\ conns[conn].state = "open"
    /\ Ran(OnClose(State, conn), [op |-> "close", conn |-> conn])
    /\ UNCHANGED <<authToken, now, autoJoined>>

WsConnect ==
  LET n == Cardinality({ws \in WsIds : sessions[ws].readyState # "CONNECTING"})
      ws == WsId(n + 1)
  IN /\ n < MaxWs
     /\ Ran(OnWsConnection(State, ws), [op |-> "wsConnection", ws |-> ws])
     /\ UNCHANGED <<authToken, now, autoJoined>>

WsMessage ==
  \E ws \in WsIds, data \in WsInputs :
    /\ sessions[ws].readyState = "OPEN"
    /\ Ran(OnWsMessage(State, ws, data, steps + 1),
           [op |-> "wsMessage", ws |-> ws, data |-> data])
    /\ UNCHANGED <<authToken, now, autoJoined>>

WsClose ==
  \E ws \in WsIds :
    /\ sessions[ws].readyState = "OPEN"
    /\ Ran(OnWsClose(State, ws), [op |-> "wsClose", ws |-> ws])
    /\ UNCHANGED <<authToken, now, autoJoined>>

Next ==
  \/ Tick
  \/ AutoJoin
  \/ PeerConnect
  \/ PeerData
  \/ PeerClose
  \/ WsConnect
  \/ WsMessage
  \/ WsClose

Spec == Init /\ [][Next]_vars

(***************************************************************************)
(* Properties                                                              *)
(***************************************************************************)
\* The message of the handler that ran last, when it was a parsed message of
\* a WebSocket session.
LastWs == last.op = "wsMessage" /\ last.data.parses
LastField(k) == Get(last.data.value, k)
\* The handler that ran last handled a parsed message of a relay session.
LastRelay == LastWs /\ sessions[last.ws].isRelayClient
LastIsSend == LastRelay /\ LastField("action") \in {"send", "publish"}

Entries(log) == {log[i] : i \in 1..Len(log)}
\* What a handler appended to a log.
Added(before, after) == SubSeq(after, Len(before) + 1, Len(after))
Extends(before, after) ==
  Len(before) <= Len(after) /\ SubSeq(after, 1, Len(before)) = before

\* C1: the archive never holds more than MAX_MESSAGES records, and it holds
\* the most recent MAX_MESSAGES records ever archived, in arrival order (so an
\* insertion beyond capacity drops exactly the oldest record).
ArchiveKeepsMostRecent ==
  /\ Len(messages) <= MAX_MESSAGES
  /\ messages = SubSeq(archived, Len(archived) - Min(Len(archived), MAX_MESSAGES) + 1,
                       Len(archived))

\* C1 witness: more records were archived than the archive holds, and they
\* are pairwise different.
ArchiveEvicted ==
  /\ Len(archived) > MAX_MESSAGES
  /\ Len(messages) = MAX_MESSAGES
  /\ Cardinality(Entries(archived)) = Len(archived)

\* The topic of the peer connection an envelope's content arrived on, NULL
\* when the envelope does not carry a peer's message.
OriginOf(envelope) ==
  IF Has(envelope, "origin") THEN envelope.origin
  ELSE IF Has(envelope, "message") /\ Has(envelope.message, "origin")
       THEN envelope.message.origin
       ELSE NULL

\* C2: nothing that arrived from a peer over a topic that is not allow-listed
\* is relayed (as a sidechannel_message) to a session of the relay protocol.
PrivateInboundStaysPrivate ==
  \A ws \in WsIds :
    \A e \in Entries(sent[ws]) :
      e.type = "sidechannel_message" => OriginOf(e) \in PUBLIC_CHANNELS \cup {NULL}

\* C3: a handler run for a relay message that names a channel outside the
\* allow-list writes to no peer connection.
PrivateOutboundNotWritten ==
  [][(LastWs /\ LastField("channel") \notin PUBLIC_CHANNELS)' => written' = written]_vars

\* C3 witness: an accepted send on a private channel while a peer is connected.
PrivateSendWithPeer ==
  /\ LastIsSend
  /\ LastField("channel") \notin PUBLIC_CHANNELS
  /\ \E k \in DOMAIN peers : conns[peers[k].conn].state = "open"
  /\ Len(archived) > 0
  /\ archived[Len(archived)].type = "relay-message"
  /\ archived[Len(archived)].message.seq = steps

\* The session of the message that ran last had joined the channel it names.
SenderHadJoined == LastField("channel")' \in sessions[last'.ws].info.channels

AuthenticationGate ==
  [][/\ (LastRelay' /\ ENABLE_RELAY_AUTH /\ ~sessions[last'.ws].info.authenticated)
          => IF LastField("token")' = authToken
             THEN sessions'[last'.ws].info.authenticated
             ELSE /\ Len(sent'[last'.ws]) = Len(sent[last'.ws]) + 1
                  /\ Extends(sent[last'.ws], sent'[last'.ws])
                  /\ sent'[last'.ws][Len(sent'[last'.ws])].type = "error"
                  /\ \A ws \in WsIds \ {last'.ws} : sent'[ws] = sent[ws]
                  /\ sessions'[last'.ws].info = sessions[last'.ws].info
                  /\ sessions'[last'.ws].readyState = "OPEN"
                  /\ UNCHANGED <<relayChannels, topics, discoveries, written, archived,
                                 messages, agents, peers, activityStats>>
     /\ \A ws \in WsIds :
          sessions[ws].info.authenticated => sessions'[ws].info.authenticated
     /\ (LastRelay' /\ sessions[last'.ws].info.authenticated
           /\ LastField("action")' = "join")
          => /\ LastField("channel")' \in sessions'[last'.ws].info.channels
             /\ sent'[last'.ws][Len(sent'[last'.ws])] =
                   [type |-> "joined", channel |-> LastField("channel")']
     /\ (LastRelay' /\ sessions[last'.ws].info.authenticated /\ LastIsSend'
           /\ SenderHadJoined)
          => /\ Len(archived') > Len(archived)
             /\ archived'[Len(archived')].type = "relay-message"
     /\ (~ENABLE_RELAY_AUTH)' =>
          \A ws \in WsIds :
             sessions'[ws].readyState # "CONNECTING" => sessions'[ws].info.authenticated
    ]_vars

\* C5 witness: with a token configured, a session that was refused, then
\* authenticated, has a send without a token accepted.
SendAfterAuthentication ==
  /\ ENABLE_RELAY_AUTH
  /\ LastIsSend
  /\ ~Has(last.data.value, "token")
  /\ \E e \in Entries(sent[last.ws]) : e.type = "error" /\ e.error = "Authentication required"
  /\ Len(archived) > 0
  /\ archived[Len(archived)].type = "relay-message"
  /\ archived[Len(archived)].message.seq = steps

\* C6: with a token configured, a handler run for a message of a session that
\* has not presented the token leaves the topic table as it was.
CommandsNeedToken ==
  [][(LastWs /\ ENABLE_RELAY_AUTH /\ ~sessions[last.ws].info.authenticated)'
        => topics' = topics]_vars

\* The calls of one function the handler that ran last made.
CallsOf(fn) == {c \in Entries(last.calls) : c.fn = fn}
EntriesNamed(table, name) == {k \in DOMAIN table : table[k].name = name}

\* C7: a joinTopic of a name that is already joined returns the key of the
\* existing entry, leaves that entry and the swarm's discovery sessions as
\* they were, and the table holds exactly one entry of that name.
JoinIsIdempotent ==
  [][\A c \in CallsOf("joinTopic")' :
        EntriesNamed(topics, c.name) # {} =>
          /\ EntriesNamed(topics, c.name) = {c.key}
          /\ EntriesNamed(topics', c.name) = {c.key}
          /\ topics'[c.key] = topics[c.key]
          /\ Live(State, TopicBuffer(c.name)) = 1
          /\ Live(State', TopicBuffer(c.name)) = 1]_vars

\* C7 witness: a session's join of a name that was already joined.
JoinedAgain ==
  /\ LastWs
  /\ \E c \in CallsOf("joinTopic") : c.existed /\ Has(topics, c.key)

\* C9: no handler removes an agent id from the registry; after the close of a
\* peer connection the peer's key is gone from the peer table and its agent
\* record is still in the registry.
AgentsAreNeverDeleted ==
  [][/\ DOMAIN agents \subseteq DOMAIN agents'
     /\ (last.op = "close")' =>
          /\ conns[last'.conn].publicKey \notin DOMAIN peers'
          /\ conns[last'.conn].publicKey \in DOMAIN agents']_vars

\* C9 witness: a peer connection has closed.
PeerGoneAgentKept ==
  /\ last.op = "close"
  /\ conns[last.conn].publicKey \in DOMAIN agents \ DOMAIN peers

\* A second registration of an agent id that brings capabilities.
Reregistrations ==
  {c \in CallsOf("registerAgent") : Given(c.before) /\ Given(c.data.capabilities)}

\* ... of an id whose record holds another, non-empty capability set.
ReregistrationsWithOtherSet ==
  {c \in Reregistrations :
      /\ c.before[1].capabilities # {}
      /\ c.before[1].capabilities # c.data.capabilities[1]}

KeyNames ==
  { "", "a", "alpha", "0000intercom", "agent-marketplace", "private-xyz",
    "agents-services", "sc-bridge-discovery",
    "agent-network-private-channel-00",
    "agent-network-private-channel-00A",
    "agent-network-private-channel-00B" }

DeriveKeys ==
  /\ last.op = "init"
  /\ \E n1 \in KeyNames, n2 \in KeyNames :
       last' = [op |-> "getTopicKey", calls |-> <<>>, n1 |-> n1, n2 |-> n2,
                k1 |-> getTopicKey(n1), k2 |-> getTopicKey(n2)]
  /\ UNCHANGED <<authToken, now, autoJoined, peers, conns, written, topics, discoveries,
                 agents, messages, activityStats, clients, relayClients, relayChannels,
                 sessions, sent, archived, steps>>

KeySpec == Init /\ [][DeriveKeys]_vars

\* C8: equal names have equal keys and different names have different keys.
KeysSeparateNames ==
  last.op = "getTopicKey" => ((last.n1 = last.n2) <=> (last.k1 = last.k2))

(***************************************************************************)
(* registerAgent as a function of its argument: agent data of every shape  *)
(* is registered for one id, a few times in a row.                         *)
(***************************************************************************)
AgentInputs ==
  { AgentData("agent-1", name, type, <<>>, NULL, agentTopics, metadata) :
      name \in {NULL, "", "alice", "bob"},
      type \in {NULL, "bot"},
      agentTopics \in {<<>>, <<{"alpha"}>>, <<{"beta"}>>},
      metadata \in {<<>>, <<[k |-> "v1"]>>, <<[k |-> "v2", j |-> "w"]>>} }

RegisterAgent ==
  \E agentData \in AgentInputs :
    /\ steps < MaxRegistrations
    /\ Ran(registerAgent(State, agentData), [op |-> "registerAgent"])
    /\ UNCHANGED <<authToken, now, autoJoined>>

RegisterSpec == Init /\ [][RegisterAgent \/ Tick]_vars

\* The calls of one function the handler that ran last made, in a record of
\* fields old (the agent record before the call), new (the record after the
\* handler) and data (the call's argument), for the calls that found a record.
Sightings ==
  { [old |-> c.before[1], new |-> agents[c.agentId], data |-> c.data] :
      c \in {x \in Entries(last.calls) : x.fn = "registerAgent" /\ x.before # <<>>} }

PeersKeepSeparateRecords ==
  \A c \in Sightings :
    (last.op \in {"connection", "data"} /\ c.old.publicKey \in PeerKeys)
       => c.old.publicKey = c.data.publicKey

\* The handler that ran last handled an announce of a peer.
LastAnnounce ==
  /\ last.op = "data"
  /\ last.data.json
  /\ Get(last.data.value, "type") = "agent-announce"
  /\ Has(last.data.value, "payload")

OfType(log, type) == {i \in 1..Len(log) : Get(log[i], "type") = type}

\* C14: in every step, every session that is open throughout receives
\* agent-discovered exactly once for each agent id the step adds to the
\* registry and for no other id (ids are never removed, so never twice for
\* one id), and when the step is a peer's connect it receives exactly one
\* agent-join naming that peer, whether or not the peer is known.
DiscoveredOncePerAgent ==
  [][/\ DOMAIN agents \subseteq DOMAIN agents'
     /\ \A ws \in clients \cap clients' :
          (IsOpen(State, ws) /\ IsOpen(State', ws)) =>
            LET added == Added(sent[ws], sent'[ws])
                discovered == OfType(added, "agent-discovered")
                joins == OfType(added, "agent-join")
            IN /\ {added[i].payload.id : i \in discovered} = DOMAIN agents' \ DOMAIN agents
               /\ Cardinality(discovered) = Cardinality(DOMAIN agents' \ DOMAIN agents)
               /\ IF last'.op = "connection"
                  THEN /\ Cardinality(joins) = 1
                       /\ \A i \in joins : added[i].payload.agentId = last'.peerId
                  ELSE joins = {}]_vars

\* C14 witness: a known peer has connected again while a session was open:
\* the session's log holds two agent-join and one agent-discovered for it.
KnownPeerJoinedAgain ==
  /\ last.op = "connection"
  /\ \E ws \in clients :
       /\ Cardinality({i \in OfType(sent[ws], "agent-join") :
                         sent[ws][i].payload.agentId = last.peerId}) = 2
       /\ Cardinality({i \in OfType(sent[ws], "agent-discovered") :
                         sent[ws][i].payload.id = last.peerId}) = 1

\* C15: the close of a peer connection sets the lastSeen of the peer's agent
\* record to the time of the close, changes no other field of the record, and
\* every open session receives agent-leave for the peer.
CloseRefreshesLastSeen ==
  [][(last.op = "close")' =>
       LET peerId == conns[last'.conn].publicKey
       IN /\ Has(agents', peerId)
          /\ agents'[peerId] = [agents[peerId] EXCEPT !.lastSeen = now']
          /\ \A ws \in clients :
               IsOpen(State, ws) =>
                 /\ Len(sent'[ws]) = Len(sent[ws]) + 1
                 /\ sent'[ws][Len(sent'[ws])] =
                      [type |-> "agent-leave", payload |-> [agentId |-> peerId]]]_vars

\* C16: a leaveTopic of a name that is not joined returns false, leaves the
\* topic table and the swarm's discovery sessions as they were and no session
\* receives a topic-left envelope; a leaveTopic of a joined name returns
\* true, removes the entry, releases its discovery session and every open
\* session receives topic-left.
LeaveOfUnjoinedIsSilent ==
  [][\A c \in CallsOf("leaveTopic")' :
        IF EntriesNamed(topics, c.name) = {}
        THEN /\ ~c.ok
             /\ topics' = topics
             /\ discoveries' = discoveries
             /\ \A ws \in WsIds : OfType(Added(sent[ws], sent'[ws]), "topic-left") = {}
        ELSE /\ c.ok
             /\ EntriesNamed(topics', c.name) = {}
             /\ Live(State', TopicBuffer(c.name)) = Live(State, TopicBuffer(c.name)) - 1
             /\ \A ws \in clients :
                  IsOpen(State, ws) =>
                    OfType(Added(sent[ws], sent'[ws]), "topic-left") # {}]_vars

\* The message the handler that ran last parsed has the relay protocol's
\* shape (an action) or the command protocol's shape (a type and no action).
LastHasAction == Truthy(LastField("action"))
LastHasTypeOnly == ~Truthy(LastField("action")) /\ Truthy(LastField("type"))

\* C17: a session's protocol is set by its first parsed message (relay when
\* the message has an action) and never changes; a message that does not
\* parse decides nothing; a relay session's message of the command shape is
\* answered by the relay handler with one error envelope and changes no
\* topic, and a command session's message of the relay shape is ignored by
\* the command handler: no reply, no channel membership.
ProtocolIsFixed ==
  [][/\ \A ws \in WsIds :
          sessions[ws].protocolDetected =>
            /\ sessions'[ws].protocolDetected
            /\ sessions'[ws].isRelayClient = sessions[ws].isRelayClient
     /\ (last.op = "wsMessage" /\ ~last.data.parses)' =>
          sessions'[last'.ws] = sessions[last'.ws]
     /\ (LastWs' /\ ~sessions[last'.ws].protocolDetected) =>
          /\ sessions'[last'.ws].protocolDetected
          /\ sessions'[last'.ws].isRelayClient = LastHasAction'
     /\ (LastWs' /\ sessions[last'.ws].protocolDetected) =>
          IF sessions[last'.ws].isRelayClient
          THEN LastHasTypeOnly' =>
                 /\ Len(sent'[last'.ws]) = Len(sent[last'.ws]) + 1
                 /\ sent'[last'.ws][Len(sent'[last'.ws])].type = "error"
                 /\ topics' = topics
          ELSE LastHasAction' =>
                 /\ sent' = sent
                 /\ sessions' = sessions
                 /\ UNCHANGED <<relayChannels, relayClients, written, archived, agents>>]_vars

\* C17 witness: a session that began with the relay protocol has sent a
\* message of the command shape and got the relay handler's error.
RelaySessionSentCommand ==
  /\ LastRelay
  /\ LastHasTypeOnly
  /\ sent[last.ws][Len(sent[last.ws])].type = "error"
  /\ sent[last.ws][Len(sent[last.ws])].error = "Unknown action"

\* The handler that ran last handled a send or publish of an authenticated
\* relay session on a channel the session had not joined when it arrived.
SendWithoutJoin ==
  /\ LastIsSend'
  /\ sessions'[last'.ws].info.authenticated
  /\ LastField("channel")' \notin sessions[last'.ws].info.channels

\* C18: such a send adds one "Not joined to channel" error envelope to the
\* sender's log and nothing else happens: no other session receives
\* anything, nothing is written to a peer, nothing is archived and no agent
\* is registered.
SendWithoutJoinRejected ==
  [][SendWithoutJoin =>
       /\ Len(sent'[last'.ws]) = Len(sent[last'.ws]) + 1
       /\ Extends(sent[last'.ws], sent'[last'.ws])
       /\ sent'[last'.ws][Len(sent'[last'.ws])] =
            [type |-> "error", error |-> "Not joined to channel",
             channel |-> LastField("channel")']
       /\ \A ws \in WsIds \ {last'.ws} : sent'[ws] = sent[ws]
       /\ UNCHANGED <<written, archived, messages, agents, activityStats, relayChannels,
                      topics>>]_vars

\* C18 witness: a session has joined a channel, left it and then sent on it.
SentAfterLeaving ==
  /\ LastIsSend
  /\ LastField("channel") \notin sessions[last.ws].info.channels
  /\ \E i, j \in 1..Len(sent[last.ws]) :
       /\ i < j
       /\ sent[last.ws][i] = [type |-> "joined", channel |-> LastField("channel")]
       /\ sent[last.ws][j] = [type |-> "left", channel |-> LastField("channel")]
  /\ sent[last.ws][Len(sent[last.ws])].type = "error"

\* C19: a session that has disconnected is in no session table and in no
\* channel's client set, and from its disconnect on nothing is added to what
\* was sent to it.
ClosedSessionIsGone ==
  [][\A ws \in WsIds :
        sessions'[ws].readyState = "CLOSED" =>
          /\ ws \notin clients'
          /\ ws \notin relayClients'
          /\ \A channel \in DOMAIN relayChannels' : ws \notin relayChannels'[channel]
          /\ sent'[ws] = sent[ws]]_vars

\* C19 witness: a relay session has disconnected from a channel in which
\* another session remains.
SessionLeftChannelBehind ==
  /\ last.op = "wsClose"
  /\ sessions[last.ws].isRelayClient
  /\ \E channel \in sessions[last.ws].info.channels :
       /\ Has(relayChannels, channel)
       /\ relayChannels[channel] # {}
       /\ last.ws \notin relayChannels[channel]

\* C20: when data arrives on a peer connection of an allow-listed topic,
\* every open relay session that has joined the channel of that name
\* receives a sidechannel_message envelope for that channel.
PublicInboundReachesChannel ==
  [][(last.op = "data")' =>
       LET topic == conns[last'.conn].topic
       IN topic \in PUBLIC_CHANNELS =>
            \A ws \in relayClients :
              (IsOpen(State, ws) /\ topic \in sessions[ws].info.channels) =>
                \E e \in Entries(Added(sent[ws], sent'[ws])) :
                   /\ e.type = "sidechannel_message"
                   /\ e.channel = topic]_vars

(***************************************************************************)
(* Longer runs of the same handlers over a smaller alphabet: one topic,    *)
(* one peer message, a relay join and a relay send.                        *)
(***************************************************************************)
LongTopic == "agent-marketplace"
LongPeerInputs == { [json |-> TRUE, value |-> [type |-> "message", payload |-> [text |-> "hi"]]] }
LongWsInputs ==
  { [parses |-> TRUE, value |-> [action |-> "join", channel |-> LongTopic, token |-> "secret"]],
    [parses |-> TRUE,
     value |-> [action |-> "send", channel |-> LongTopic, message |-> [text |-> "hi"]]] }

LongPeerConnect ==
  \E peerId \in PeerKeys :
    LET n == Cardinality({c \in ConnIds : conns[c].state # "idle"})
        conn == ConnId(n + 1)
    IN /\ n < MaxConns
       /\ LongTopic \in Names(State)
       /\ RanWithin(OnConnection(State, conn, peerId, LongTopic),
                    [op |-> "connection", conn |-> conn, peerId |-> peerId], MaxLongSteps)
       /\ UNCHANGED <<authToken, now, autoJoined>>

LongPeerData ==
  \E conn \in ConnIds, data \in LongPeerInputs :
    /\ conns[conn].state = "open"
    /\ RanWithin(OnData(State, conn, data, steps + 1),
                 [op |-> "data", conn |-> conn, data |-> data], MaxLongSteps)
    /\ UNCHANGED <<authToken, now, autoJoined>>

LongPeerClose ==
  \E conn \in ConnIds :
    /\ conns[conn].state = "open"
    /\ RanWithin(OnClose(State, conn), [op |-> "close", conn |-> conn], MaxLongSteps)
    /\ UNCHANGED <<authToken, now, autoJoined>>

LongWsConnect ==
  LET n == Cardinality({ws \in WsIds : sessions[ws].readyState # "CONNECTING"})
      ws == WsId(n + 1)
  IN /\ n < MaxWs
     /\ RanWithin(OnWsConnection(State, ws), [op |-> "wsConnection", ws |-> ws],
                  MaxLongSteps)
     /\ UNCHANGED <<authToken, now, autoJoined>>

LongWsMessage ==
  \E ws \in WsIds, data \in LongWsInputs :
    /\ sessions[ws].readyState = "OPEN"
    /\ RanWithin(OnWsMessage(State, ws, data, steps + 1),
                 [op |-> "wsMessage", ws |-> ws, data |-> data], MaxLongSteps)
    /\ UNCHANGED <<authToken, now, autoJoined>>

LongNext ==
  \/ LongPeerConnect
  \/ LongPeerData
  \/ LongPeerClose
  \/ LongWsConnect
  \/ LongWsMessage

LongSpec == Init /\ [][LongNext]_vars

\* The handler that ran last accepted a send or publish with a message of an
\* authenticated relay session on a joined, allow-listed channel.
PublicSendAccepted ==
  /\ LastIsSend'
  /\ Has(last'.data.value, "message")
  /\ LastField("channel")' \in PUBLIC_CHANNELS
  /\ sessions'[last'.ws].info.authenticated
  /\ SenderHadJoined

\* The open connections of one public key.
OpenConnsOf(peerId) ==
  {c \in ConnIds : conns[c].state = "open" /\ conns[c].publicKey = peerId}

\* C21: a send accepted on an allow-listed channel is written exactly once to
\* every peer that has an open connection at that moment, whatever topic the
\* connection was found over, and to no connection that is not open.
SendWrittenOnceToEveryPeer ==
  [][PublicSendAccepted =>
       /\ \A c \in ConnIds :
            /\ Extends(written[c], written'[c])
            /\ conns[c].state # "open" => written'[c] = written[c]
       /\ \A peerId \in PeerKeys :
            OpenConnsOf(peerId) # {} =>
              Cardinality({<<c, i>> \in OpenConnsOf(peerId) \X (1..MaxLongSteps) :
                             Len(written[c]) < i /\ i <= Len(written'[c])}) = 1]_vars

(***************************************************************************)
(* The message endpoint of the HTTP server                                 *)
(***************************************************************************)
MESSAGES_PAGE == 100

\* messages.slice(-n)
LastOf(seq, n) == SubSeq(seq, Max(Len(seq) - n, 0) + 1, Len(seq))

\* GET /messages: the answer is built from the archive alone; the query
\* string is matched by req.url.startsWith('/messages?') and never parsed.
getMessages(s, query) ==
  [count |-> Len(s.messages), messages |-> LastOf(s.messages, MESSAGES_PAGE)]

Queries ==
  [channel : {NULL, LongTopic, "private-xyz"}, sender : {NULL, WsId(1), WsId(2)},
   limit : 0..MAX_MESSAGES, offset : 0..MAX_MESSAGES]

HttpGetMessages ==
  \E query \in Queries :
    /\ RanWithin(State, [op |-> "getMessages", query |-> query,
                         response |-> getMessages(State, query)], MaxLongSteps)
    /\ UNCHANGED <<authToken, now, autoJoined>>

QueryNext ==
  \/ LongPeerConnect
  \/ LongPeerData
  \/ LongWsConnect
  \/ LongWsMessage
  \/ HttpGetMessages

QuerySpec == Init /\ [][QueryNext]_vars

\* The records of the archive a query selects, oldest first.
Selected(archive, query) ==
  SelectSeq(archive,
            LAMBDA m : /\ query.channel # NULL => Get(m, "channel") = query.channel
                       /\ query.sender # NULL => Get(m, "from") = query.sender)

\* seq[offset, offset + limit)
Slice(seq, offset, limit) == SubSeq(seq, offset + 1, Min(offset + limit, Len(seq)))

\* C22: a query is answered with the records of the archive that match the
\* given channel and the given sender, oldest first, cut to positions
\* [offset, offset + limit), and with the number of matching records as the
\* total; an offset at or past that number gives an empty list and the same
\* total.
QueryReturnsFilteredSlice ==
  last.op = "getMessages" =>
    LET matching == Selected(messages, last.query)
    IN /\ last.response.messages = Slice(matching, last.query.offset, last.query.limit)
       /\ last.response.count = Len(matching)

(***************************************************************************)
(* Sends that fail                                                         *)
(***************************************************************************)
\* What ws.send can do on an open socket: pass the frame on, lose it (the
\* failure is reported later, to a callback the bridge does not give), or throw.
SendOutcomes == {"sent", "lost", "throws"}

Threw(calls) == \E i \in 1..Len(calls) : Has(calls[i], "threw")

\* The process is gone once a handler has thrown: no handler of the peer
\* connections catches, and there is no uncaughtException listener.
Alive == ~Threw(last.calls)

\* clients.forEach(ws => { if (ws.readyState === WebSocket.OPEN) ws.send(...) })
\* with the outcome of each session's send given. The set is visited in
\* insertion order, which is the order of connection (clients.add(ws) in
\* wss.on('connection')); a throw leaves forEach.
broadcastWithOutcomes(s, message, outcome) ==
  LET RECURSIVE Each(_, _)
      Each(t, i) ==
        IF i > MaxWs THEN t
        ELSE LET ws == WsId(i)
             IN IF ws \notin t.clients \/ ~IsOpen(t, ws) THEN Each(t, i + 1)
                ELSE IF outcome[ws] = "throws"
                     THEN Note(t, [fn |-> "ws.send", ws |-> ws, threw |-> "Error"])
                ELSE IF outcome[ws] = "lost" THEN Each(t, i + 1)
                ELSE Each(Send(t, ws, message), i + 1)
  IN Each(s, 1)

\* conn.on('data') when the sends of its broadcast have the given outcomes
OnDataWithOutcomes(s, conn, data, seq, outcome) ==
  LET peerId == s.conns[conn].publicKey
      tag == [seq |-> seq, origin |-> s.conns[conn].topic]
      msg == IF data.json
             THEN Spread(data.value, tag)
             ELSE Spread([type |-> "message", payload |-> [source |-> peerId, raw |-> TRUE]],
                         tag)
      s1 == IF Has(s.peers, peerId) THEN [s EXCEPT !.peers[peerId].lastSeen = s.now] ELSE s
      payload == msg.payload
      s2 == IF Get(msg, "type") = "agent-announce" /\ Has(msg, "payload")
            THEN registerAgent(s1,
                    AgentData(AnnouncedId(payload, peerId), Get(payload, "name"),
                              Get(payload, "type"), GetOpt(payload, "capabilities"),
                              peerId, <<>>, <<payload>>))
            ELSE s1
      s3 == archiveMessage(s2, msg)
      s4 == broadcastWithOutcomes(s3, msg, outcome)
  IN IF Threw(s4.calls) THEN s4 ELSE relayToWebSocketRelay(s4, "0000intercom", msg, peerId)

PeerDataWithOutcomes ==
  \E conn \in ConnIds, data \in LongPeerInputs, outcome \in [WsIds -> SendOutcomes] :
    /\ conns[conn].state = "open"
    /\ RanWithin(OnDataWithOutcomes(State, conn, data, steps + 1, outcome),
                 [op |-> "data", conn |-> conn, data |-> data, outcome |-> outcome],
                 MaxLongSteps)
    /\ UNCHANGED <<authToken, now, autoJoined>>

FanoutNext ==
  \/ Alive /\ LongPeerConnect
  \/ Alive /\ LongWsConnect
  \/ Alive /\ LongWsMessage
  \/ Alive /\ PeerDataWithOutcomes

FanoutSpec == Init /\ [][FanoutNext]_vars

\* C23: when a peer's message is fanned out and the send to one open session
\* fails, every other open session whose own send works still receives the
\* message, once, and the session whose send failed receives nothing in that
\* step (no second attempt).
FanoutIsIndependent ==
  [][(last'.op = "data" /\ Has(last', "outcome")) =>
       \A ws \in clients :
          IsOpen(State, ws) =>
            IF last'.outcome[ws] = "sent"
            THEN /\ Len(sent'[ws]) = Len(sent[ws]) + 1
                 /\ Extends(sent[ws], sent'[ws])
                 /\ sent'[ws][Len(sent'[ws])].seq = steps'
            ELSE sent'[ws] = sent[ws]]_vars

(***************************************************************************)
(* Peer payloads of any shape                                              *)
(***************************************************************************)
\* A JSON number used as an agent id, written as a string of its own so that
\* the keys of the registry stay comparable.
NonStringIds == {"#42"}
IsString(v) == v \notin NonStringIds

TypeError(s, where) == Note(s, [fn |-> where, threw |-> "TypeError"])

\* registerAgent with an id of any type: agents.get / agents.set take any
\* key, and console.log(`... ${agentId.slice(0, 16)} ...`), which both
\* branches run before the broadcast and the return, throws when agentId has
\* no slice.
registerAgentOfAnyId(s, agentData) ==
  LET agentId == Or(agentData.id, agentData.publicKey)
      created == CreatedAgent(agentId, agentData, s.now)
  IN IF ~Truthy(agentId) \/ IsString(agentId) THEN registerAgent(s, agentData)
     ELSE IF Has(s.agents, agentId)
          THEN TypeError([s EXCEPT !.agents[agentId] = UpdatedAgent(@, agentData, s.now)],
                         "registerAgent")
          ELSE TypeError([s EXCEPT !.agents = Put(@, agentId, created),
                                   !.activityStats.totalAgents = @ + 1],
                         "registerAgent")

\* conn.on('data') for every payload: data.json says whether JSON.parse
\* succeeds, data.value is the parsed object, and data.primitive names a
\* parsed value that is not an object. Reading msg.type of null throws; a
\* number or a string has no type and is archived and passed on as it is.
OnDataOfAnyShape(s, conn, data, seq) ==
  LET peerId == s.conns[conn].publicKey
      tag == [seq |-> seq, origin |-> s.conns[conn].topic]
      msg == IF ~data.json
             THEN Spread([type |-> "message", payload |-> [source |-> peerId, raw |-> TRUE]],
                         tag)
             ELSE IF Has(data, "primitive") THEN Spread([primitive |-> data.primitive], tag)
             ELSE Spread(data.value, tag)
      s1 == IF Has(s.peers, peerId) THEN [s EXCEPT !.peers[peerId].lastSeen = s.now] ELSE s
      payload == msg.payload
      s2 == IF Get(msg, "type") = "agent-announce" /\ Has(msg, "payload")
            THEN registerAgentOfAnyId(s1,
                    AgentData(AnnouncedId(payload, peerId), Get(payload, "name"),
                              Get(payload, "type"), GetOpt(payload, "capabilities"),
                              peerId, <<>>, <<payload>>))
            ELSE s1
      s3 == archiveMessage(s2, msg)
      s4 == broadcastToWebSocketClients(s3, msg)
  IN IF data.json /\ Get(data, "primitive") = "null" THEN TypeError(s1, "conn.on('data')")
     ELSE IF Threw(s2.calls) THEN s2
     ELSE relayToWebSocketRelay(s4, "0000intercom", msg, peerId)

AnyPeerInputs ==
  { [json |-> FALSE],
    [json |-> TRUE, primitive |-> "null"],
    [json |-> TRUE, primitive |-> "number"],
    [json |-> TRUE, value |-> [type |-> "message", payload |-> [text |-> "hi"]]],
    [json |-> TRUE, value |-> [type |-> "agent-announce",
                               payload |-> [agentId |-> "agent-1", name |-> "Alice"]]],
    [json |-> TRUE, value |-> [type |-> "agent-announce",
                               payload |-> [agentId |-> "#42", name |-> "Alice"]]] }

PeerDataOfAnyShape ==
  \E conn \in ConnIds, data \in AnyPeerInputs :
    /\ conns[conn].state = "open"
    /\ RanWithin(OnDataOfAnyShape(State, conn, data, steps + 1),
                 [op |-> "data", conn |-> conn, data |-> data], MaxLongSteps)
    /\ UNCHANGED <<authToken, now, autoJoined>>

PeerInputNext ==
  \/ Alive /\ LongPeerConnect
  \/ Alive /\ LongWsConnect
  \/ Alive /\ LongWsMessage
  \/ Alive /\ PeerDataOfAnyShape

PeerInputSpec == Init /\ [][PeerInputNext]_vars

\* C24: whatever a peer sends (bytes that are not JSON, JSON that is not an
\* object, an announce whose id is not a string), the data handler returns
\* without throwing, so the process keeps serving.
PeerInputIsNeverFatal == last.op = "data" => ~Threw(last.calls)

(***************************************************************************)
(* Join commands with and without a channel name                           *)
(***************************************************************************)
JoinInputs ==
  { [parses |-> TRUE, value |-> v] :
      v \in { [action |-> "join"],
              [action |-> "join", token |-> "secret"],
              [action |-> "join", channel |-> LongTopic, token |-> "secret"],
              [type |-> "join_topic"],
              [type |-> "join_topic", payload |-> [key |-> "k"]],
              [type |-> "join_topic", payload |-> [name |-> LongTopic]] } }

JoinWsMessage ==
  \E ws \in WsIds, data \in JoinInputs :
    /\ sessions[ws].readyState = "OPEN"
    /\ RanWithin(OnWsMessage(State, ws, data, steps + 1),
                 [op |-> "wsMessage", ws |-> ws, data |-> data], MaxLongSteps)
    /\ UNCHANGED <<authToken, now, autoJoined>>

JoinNext ==
  \/ LongWsConnect
  \/ JoinWsMessage

JoinSpec == Init /\ [][JoinNext]_vars

\* The handler that ran last handled a join that names no channel: a relay
\* session's join without channel, or a command session's join_topic without
\* payload.name.
LastIsNamelessJoin ==
  /\ LastWs
  /\ IF sessions[last.ws].isRelayClient
     THEN LastField("action") = "join" /\ ~Truthy(LastField("channel"))
     ELSE /\ LastField("type") = "join_topic"
          /\ ~(Has(last.data.value, "payload") /\ Truthy(Get(last.data.value.payload, "name")))

\* C25: a join that names no channel, of either protocol, is answered with
\* one error envelope and creates nothing: the channel table, the discovery
\* sessions, the relay channels and the session's memberships stay as they
\* were.
NamelessJoinIsRefused ==
  [][LastIsNamelessJoin' =>
       LET added == Added(sent[last'.ws], sent'[last'.ws])
       IN /\ Len(added) = 1
          /\ added[1].type = "error"
          /\ topics' = topics
          /\ discoveries' = discoveries
          /\ relayChannels' = relayChannels
          /\ sessions'[last'.ws].info.channels = sessions[last'.ws].info.channels]_vars

LastUnparsed == last.op = "wsMessage" /\ ~last.data.parses

\* C26: a message of a local client that does not parse changes nothing: the
\* sessions (protocol, authentication, memberships), the channel tables, the
\* peers, the agents, the archive and every session's log stay as they were,
\* and the session stays open, so that its next command is handled as if the
\* message had not been sent.
UnparsedMessageChangesNothing ==
  [][LastUnparsed' =>
       /\ sessions' = sessions
       /\ sessions'[last'.ws].readyState = "OPEN"
       /\ clients' = clients
       /\ relayClients' = relayClients
       /\ relayChannels' = relayChannels
       /\ topics' = topics
       /\ discoveries' = discoveries
       /\ peers' = peers
       /\ conns' = conns
       /\ agents' = agents
       /\ messages' = messages
       /\ archived' = archived
       /\ activityStats' = activityStats
       /\ sent' = sent
       /\ written' = written]_vars

\* An authenticated relay session that has joined a channel sent something
\* that does not parse.
JoinedSessionSentGarbage ==
  /\ LastUnparsed
  /\ sessions[last.ws].isRelayClient
  /\ sessions[last.ws].info.authenticated
  /\ sessions[last.ws].info.channels # {}

\* The records a step archived for the channel of the given name.
ArchivedFor(name) ==
  LET added == Added(archived, archived')
  IN {i \in 1..Len(added) : Get(added[i], "channel") = name}

\* C27: in every step, each record archived for a channel that is joined
\* raises that channel's message counter by one and sets its last-activity
\* time to the time of the step (so the counter of a joined channel is the
\* number of records archived for it since it was joined).
ArchiveCountsPerChannel ==
  [][\A k \in DOMAIN topics \cap DOMAIN topics' :
        LET n == Cardinality(ArchivedFor(topics[k].name))
        IN /\ topics'[k].messageCount = topics[k].messageCount + n
           /\ n > 0 => topics'[k].lastActivity = now']_vars

\* The joinTopic calls of the step that found the name not joined.
NewJoins == {i \in 1..Len(last'.calls) : /\ last'.calls[i].fn = "joinTopic"
                                         /\ ~last'.calls[i].existed}
\* The topic-joined events about a name among the entries a log gained.
JoinedEvents(added, name) ==
  {j \in 1..Len(added) : /\ Get(added[j], "type") = "topic-joined"
                         /\ Has(added[j], "payload")
                         /\ added[j].payload.name = name}

FromPeers(log) == {i \in 1..Len(log) : Has(log[i], "origin")}

\* C29: every message received on a peer connection is passed to every open
\* session by the handler that received it, after everything the session was
\* sent before, so each session's log holds the messages of peers in the
\* order of their receipt, whatever other connections and sessions do in
\* between.
PeerOrderIsKept ==
  /\ [](\A ws \in WsIds :
          \A i, j \in FromPeers(sent[ws]) : i < j => sent[ws][i].seq < sent[ws][j].seq)
  /\ [][last'.op = "data" =>
          \A ws \in clients :
             IsOpen(State, ws) =>
               /\ Extends(sent[ws], sent'[ws])
               /\ Len(sent'[ws]) > Len(sent[ws])
               /\ Has(sent'[ws][Len(sent'[ws])], "origin")
               /\ sent'[ws][Len(sent'[ws])].seq = steps']_vars

\* A session's log holds two messages of peers, the second one received
\* while two connections are open.
TwoMessagesOfPeersLogged ==
  /\ last.op = "data"
  /\ Cardinality({c \in ConnIds : conns[c].state = "open"}) = 2
  /\ \E ws \in WsIds : Cardinality(FromPeers(sent[ws])) >= 2

(***************************************************************************)
(* The activity snapshot of the Observatory server: the rate as a function *)
(* of the messages received and the time since the start.                  *)
(***************************************************************************)
MS_PER_SECOND == 1000
MaxReceived == 6
UptimesMs == {0, 1, 250, 500, 1000, 1500, 2000, 3000}

\* (activity.messagesReceived / (uptime / 1000)).toFixed(2): the text of the
\* quotient rounded to hundredths, kept here as the number of hundredths; a
\* division by zero gives NaN (0 / 0) or Infinity, which toFixed turns into
\* the texts "NaN" and "Infinity".
messagesPerSecond(messagesReceived, uptime) ==
  IF uptime = 0
  THEN [text |-> IF messagesReceived = 0 THEN "NaN" ELSE "Infinity"]
  ELSE [hundredths |->
          (2 * messagesReceived * MS_PER_SECOND * 100 + uptime) \div (2 * uptime)]

\* GET /activity and the get_activity command
ActivitySnapshot ==
  /\ last.op = "init"
  /\ \E messagesReceived \in 0..MaxReceived, uptime \in UptimesMs :
       last' = [op |-> "activity", calls |-> <<>>, messagesReceived |-> messagesReceived,
                uptime |-> uptime,
                messagesPerSecond |-> messagesPerSecond(messagesReceived, uptime)]
  /\ UNCHANGED <<authToken, now, autoJoined, peers, conns, written, topics, discoveries,
                 agents, messages, activityStats, clients, relayClients, relayChannels,
                 sessions, sent, archived, steps>>

ActivitySpec == Init /\ [][ActivitySnapshot]_vars

\* C30: the rate of a snapshot is a number: the messages received divided
\* by the seconds elapsed (to the hundredth), and 0 when no time has elapsed.
RateIsDefined ==
  last.op = "activity" =>
    /\ Has(last.messagesPerSecond, "hundredths")
    /\ LET rate == last.messagesPerSecond.hundredths
           exact == last.messagesReceived * MS_PER_SECOND * 100
       IN IF last.uptime = 0 THEN rate = 0
          ELSE /\ 2 * (rate * last.uptime - exact) <= last.uptime
               /\ 2 * (exact - rate * last.uptime) <= last.uptime

DEFAULT_CHANNEL == "0000intercom"

\* The sidechannel_message envelopes among the entries a log gained.
Sidechannel(added) == {i \in 1..Len(added) : Get(added[i], "type") = "sidechannel_message"}

Deliveries(added) == FromPeers(added) \cup Sidechannel(added)

\* C32: a message received from a peer is delivered to each session at most
\* once, also to a relay session that has joined 0000intercom.
DeliveredAtMostOnce ==
  [][last'.op = "data" =>
       \A ws \in WsIds : Cardinality(Deliveries(Added(sent[ws], sent'[ws]))) <= 1]_vars

\* The handler that ran last accepted a send or publish with a message of an
\* authenticated relay session on a channel the session had joined.
SendAccepted ==
  /\ LastIsSend'
  /\ Has(last'.data.value, "message")
  /\ sessions'[last'.ws].info.authenticated
  /\ SenderHadJoined

\* C33: every accepted send, on an allow-listed channel or not, adds exactly
\* one record to the archive and one to the count of messages.
SendArchivedOnce ==
  [][SendAccepted =>
       /\ Len(archived') = Len(archived) + 1
       /\ activityStats'.totalMessages = activityStats.totalMessages + 1]_vars

\* The handler that ran last handled a join of a relay session that is
\* authenticated afterwards (so the join was carried out).
LastIsJoin ==
  /\ LastRelay
  /\ LastField("action") = "join"
  /\ sessions[last.ws].info.authenticated

\* C34: a relay session's join of a channel outside the allow-list leaves
\* the topic table and the swarm's discovery sessions as they were; a join
\* of an allow-listed channel leaves a topic entry of that name behind.
RelayJoinSubscribesPublicOnly ==
  [][LastIsJoin' =>
       IF LastField("channel")' \in PUBLIC_CHANNELS
       THEN EntriesNamed(topics', LastField("channel")') # {}
       ELSE topics' = topics /\ discoveries' = discoveries]_vars

\* A relay session has joined a channel outside the allow-list.
PrivateChannelJoined ==
  /\ LastIsJoin
  /\ LastField("channel") \notin PUBLIC_CHANNELS
  /\ LastField("channel") \in sessions[last.ws].info.channels

\* C35: a public key has an entry in the peer table exactly when at least
\* one connection from that key is open, also while two connections of one
\* key overlap.
PeerTableTracksLiveness ==
  \A peerId \in PeerKeys : Has(peers, peerId) <=> OpenConnsOf(peerId) # {}

(***************************************************************************)
(* The Observatory server (part_000): peers, topics and their member sets  *)
(*                                                                         *)
(* A peer object is created by the first connection of a key and shared by *)
(* the handlers of every later connection that finds it in the table.  It  *)
(* is named by the connection that created it (the entry's conn).  Once    *)
(* peers.delete has removed it from the table nothing adds to its topics   *)
(* any more, so each connection that still refers to it keeps a copy       *)
(* (conns[c].topics).                                                      *)
(***************************************************************************)
MaxMemberConns == 3
MaxMemberSteps == 6

MemberConnIds == {ConnId(i) : i \in 1..MaxMemberConns}
MemberTopics == {"agent-marketplace", "agent-announce"}
OBSERVATORY_AUTO_JOIN_TOPICS ==
  <<"sc-bridge-discovery", "agent-marketplace", "agent-announce", "intercom-global",
    "agent-network">>

NoTopic == <<>>

\* crypto.discoveryKey(sha256(topicName)) as hex
observatoryTopicKey(topicName) == <<"discoveryKey", "sha256(" \o topicName \o ")">>

observatoryJoinTopic(s, topicName, server, client) ==
  LET topicKeyHex == observatoryTopicKey(topicName)
      s1 == SwarmJoin(s, topicKeyHex)
      s2 == [s1 EXCEPT
               !.topics = Put(@, topicKeyHex,
                  [name |-> topicName, key |-> topicKeyHex, peers |-> {},
                   joinedAt |-> s.now, server |-> server, client |-> client,
                   messageCount |-> 0, lastActivity |-> s.now]),
               !.activityStats.totalTopics = @ + 1]
  IN IF Has(s.topics, topicKeyHex) THEN s
     ELSE broadcastToWebSocketClients(s2,
            [type |-> "topic-joined", payload |-> [name |-> topicName, key |-> topicKeyHex]])

\* Returns the state and what leaveTopic returns.
observatoryLeaveTopic(s, topicName) ==
  LET topicKeyHex == observatoryTopicKey(topicName)
      s1 == DiscoveryDestroy(s, topicKeyHex)
      s2 == [s1 EXCEPT !.topics = Delete(@, topicKeyHex)]
  IN IF ~Has(s.topics, topicKeyHex) THEN [s |-> s, success |-> FALSE]
     ELSE [s |-> broadcastToWebSocketClients(s2,
                   [type |-> "topic-left",
                    payload |-> [name |-> topicName, key |-> topicKeyHex]]),
           success |-> TRUE]

\* registerAgent of the Observatory server, as swarm.on('connection') calls
\* it: the record is kept under the public key; an update replaces the topics.
observatoryRegisterAgent(s, publicKey, name, type, agentTopics) ==
  LET created == [id |-> publicKey, name |-> name, type |-> type, capabilities |-> {},
                  publicKey |-> publicKey, topics |-> agentTopics, firstSeen |-> s.now,
                  lastSeen |-> s.now, metadata |-> EmptyMap]
      s1 == [s EXCEPT !.agents = Put(@, publicKey, created),
                      !.activityStats.totalAgents = @ + 1]
  IN IF Has(s.agents, publicKey)
     THEN [s EXCEPT !.agents[publicKey].lastSeen = s.now,
                    !.agents[publicKey].topics = agentTopics]
     ELSE broadcastToWebSocketClients(s1, [type |-> "agent-discovered", payload |-> created])

\* swarm.on('connection'): topicKey is info.topics[0] as hex, NoTopic when
\* the swarm names no topic.
observatoryOnConnection(s, conn, peerId, topicKey) ==
  LET s1 == IF Has(s.peers, peerId) THEN s
            ELSE [s EXCEPT !.peers = Put(@, peerId,
                     [publicKey |-> peerId, conn |-> conn, connectedAt |-> s.now,
                      lastSeen |-> s.now, topics |-> {}])]
      peer == s1.peers[peerId].conn
      s2 == [s1 EXCEPT !.conns[conn] =
                [state |-> "open", publicKey |-> peerId, topic |-> topicKey,
                 peer |-> peer, topics |-> {}]]
      s3 == IF topicKey # NoTopic /\ Has(s2.topics, topicKey)
            THEN [s2 EXCEPT !.peers[peerId].topics = @ \cup {topicKey},
                            !.topics[topicKey].peers = @ \cup {peerId}]
            ELSE s2
      s4 == observatoryRegisterAgent(s3, peerId, "Peer-" \o peerId, "peer",
                                     s3.peers[peerId].topics)
  IN broadcastToWebSocketClients(s4,
        [type |-> "agent-join",
         payload |-> [agentId |-> peerId, publicKey |-> peerId,
                      topics |-> s3.peers[peerId].topics]])

\* conn.on('close') of the Observatory server: peer is the object the
\* handler of this connection got from the table when it connected.
observatoryOnClose(s, conn) ==
  LET peerId == s.conns[conn].publicKey
      inTable == Has(s.peers, peerId) /\ s.peers[peerId].conn = s.conns[conn].peer
      peerTopics == IF inTable THEN s.peers[peerId].topics ELSE s.conns[conn].topics
      s1 == [s EXCEPT !.topics = [k \in DOMAIN @ |->
                IF k \in peerTopics THEN [@[k] EXCEPT !.peers = @ \ {peerId}] ELSE @[k]]]
      s2 == IF Has(s1.agents, peerId)
            THEN [s1 EXCEPT !.agents[peerId].lastSeen = s.now]
            ELSE s1
      removed == s.peers[peerId]
      s3 == IF Has(s2.peers, peerId)
            THEN [s2 EXCEPT
                    !.peers = Delete(@, peerId),
                    !.conns = [c \in DOMAIN @ |->
                       IF @[c].state # "idle" /\ @[c].peer = removed.conn
                       THEN [@[c] EXCEPT !.topics = removed.topics]
                       ELSE @[c]]]
            ELSE s2
      s4 == [s3 EXCEPT !.conns[conn].state = "closed"]
  IN broadcastToWebSocketClients(s4, [type |-> "agent-leave", payload |-> [agentId |-> peerId]])

\* wss.on('connection') of the Observatory server
observatoryOnWsConnection(s, ws) ==
  LET s1 == [s EXCEPT !.clients = @ \cup {ws}, !.sessions[ws].readyState = "OPEN"]
      s2 == IF DOMAIN s.peers # {}
            THEN Send(s1, ws, [type |-> "peer-list", payload |-> [peers |-> DOMAIN s.peers]])
            ELSE s1
      s3 == IF DOMAIN s.agents # {}
            THEN Send(s2, ws, [type |-> "agent-list", payload |-> [agents |-> DOMAIN s.agents]])
            ELSE s2
  IN IF DOMAIN s.topics # {}
     THEN Send(s3, ws, [type |-> "topic-list",
                        payload |-> [topics |-> {s.topics[k].name : k \in DOMAIN s.topics}]])
     ELSE s3

\* ws.on('message') of the Observatory server, the join_topic and
\* leave_topic commands
observatoryOnWsMessage(s, ws, d) ==
  LET named == Has(d, "payload") /\ Truthy(Get(d.payload, "name"))
      required == Send(s, ws, [type |-> "error",
                               payload |-> [message |-> "Topic name required"]])
      left == observatoryLeaveTopic(s, d.payload.name)
  IN CASE d.type = "join_topic" ->
            IF ~named THEN required
            ELSE Send(observatoryJoinTopic(s, d.payload.name, TRUE, TRUE), ws,
                      [type |-> "topic-joined",
                       payload |-> [name |-> d.payload.name,
                                    key |-> observatoryTopicKey(d.payload.name)]])
       [] d.type = "leave_topic" ->
            IF ~named THEN required
            ELSE IF left.success
                 THEN Send(left.s, ws, [type |-> "topic-left",
                                        payload |-> [name |-> d.payload.name]])
                 ELSE Send(left.s, ws, [type |-> "error",
                                        payload |-> [message |-> "Topic not found"]])
       [] OTHER -> s

\* The state after the start: the tables are empty and the topics of
\* AUTO_JOIN_TOPICS are joined.
MemberInit ==
  LET empty == [now |-> 0, peers |-> EmptyMap,
                conns |-> [c \in MemberConnIds |->
                             [state |-> "idle", publicKey |-> NULL, topic |-> NoTopic]],
                written |-> [c \in MemberConnIds |-> <<>>],
                topics |-> EmptyMap, discoveries |-> EmptyMap, agents |-> EmptyMap,
                messages |-> <<>>,
                activityStats |-> [startTime |-> 0, totalMessages |-> 0, totalAgents |-> 0,
                                   totalTopics |-> 0, hourlyStats |-> EmptyMap],
                clients |-> {}, relayClients |-> {}, relayChannels |-> EmptyMap,
                sessions |-> [ws \in WsIds |-> NewSession(ws)],
                sent |-> [ws \in WsIds |-> <<>>], archived |-> <<>>, calls |-> <<>>]
      RECURSIVE JoinAll(_, _)
      JoinAll(s, i) ==
        IF i > Len(OBSERVATORY_AUTO_JOIN_TOPICS) THEN s
        ELSE JoinAll(observatoryJoinTopic(s, OBSERVATORY_AUTO_JOIN_TOPICS[i], TRUE, TRUE),
                     i + 1)
      started == JoinAll(empty, 1)
  IN /\ authToken = NULL
     /\ now = 0
     /\ autoJoined = TRUE
     /\ peers = started.peers
     /\ conns = started.conns
     /\ written = started.written
     /\ topics = started.topics
     /\ discoveries = started.discoveries
     /\ agents = started.agents
     /\ messages = started.messages
     /\ activityStats = started.activityStats
     /\ clients = started.clients
     /\ relayClients = started.relayClients
     /\ relayChannels = started.relayChannels
     /\ sessions = started.sessions
     /\ sent = started.sent
     /\ archived = started.archived
     /\ steps = 0
     /\ last = [op |-> "init", calls |-> <<>>]

MemberPeerConnect ==
  \E peerId \in PeerKeys,
     topicKey \in {NoTopic} \cup {observatoryTopicKey(t) : t \in MemberTopics} :
    LET n == Cardinality({c \in MemberConnIds : conns[c].state # "idle"})
        conn == ConnId(n + 1)
    IN /\ n < MaxMemberConns
       /\ RanWithin(observatoryOnConnection(State, conn, peerId, topicKey),
                    [op |-> "connection", conn |-> conn, peerId |-> peerId],
                    MaxMemberSteps)
       /\ UNCHANGED <<authToken, now, autoJoined>>

MemberPeerClose ==
  \E conn \in MemberConnIds :
    /\ conns[conn].state = "open"
    /\ RanWithin(observatoryOnClose(State, conn), [op |-> "close", conn |-> conn],
                 MaxMemberSteps)
    /\ UNCHANGED <<authToken, now, autoJoined>>

MemberWsConnect ==
  LET ws == WsId(1)
  IN /\ sessions[ws].readyState = "CONNECTING"
     /\ RanWithin(observatoryOnWsConnection(State, ws), [op |-> "wsConnection", ws |-> ws],
                  MaxMemberSteps)
     /\ UNCHANGED <<authToken, now, autoJoined>>

MemberWsMessage ==
  \E ws \in WsIds, type \in {"join_topic", "leave_topic"}, name \in MemberTopics :
    LET d == [type |-> type, payload |-> [name |-> name]]
    IN /\ sessions[ws].readyState = "OPEN"
       /\ RanWithin(observatoryOnWsMessage(State, ws, d),
                    [op |-> "wsMessage", ws |-> ws, data |-> [parses |-> TRUE, value |-> d]],
                    MaxMemberSteps)
       /\ UNCHANGED <<authToken, now, autoJoined>>

MemberNext ==
  \/ MemberPeerConnect
  \/ MemberPeerClose
  \/ MemberWsConnect
  \/ MemberWsMessage

MemberSpec == MemberInit /\ [][MemberNext]_vars

\* C36: every identity in the member set of a topic is the key of an entry
\* of the peer table.
MembersAreLivePeers ==
  \A k \in DOMAIN topics : topics[k].peers \subseteq DOMAIN peers

\* The channels a live relay session has joined, by the session's own set.
JoinedBy(ws) == IF ws \in relayClients THEN sessions[ws].info.channels ELSE {}

\* C37: the two membership tables of the relay agree: a session is in the
\* client set of a channel exactly when it is a live relay session whose own
\* set holds the channel, and no channel is mapped to an empty client set.
RelayTablesAgree ==
  /\ \A channel \in DOMAIN relayChannels : relayChannels[channel] # {}
  /\ \A ws \in WsIds :
       {channel \in DOMAIN relayChannels : ws \in relayChannels[channel]} = JoinedBy(ws)

\* A relay session that had joined a channel has disconnected, and another
\* session stays in that channel.
DisconnectedFromSharedChannel ==
  /\ last.op = "wsClose"
  /\ \E channel \in sessions[last.ws].info.channels :
       /\ Has(relayChannels, channel)
       /\ relayChannels[channel] # {}

\* Sessions that have been sent a sidechannel_message envelope.
Addressed == {ws \in WsIds : Sidechannel(sent[ws]) # {}}

\* C38: in every reachable state a session whose set of joined channels is not
\* empty is authenticated, and so is every session that has been sent a
\* sidechannel_message; with a token configured a session that has not
\* presented it has neither joined nor been addressed.
JoinedAreAuthenticated ==
  \A ws \in WsIds :
    (sessions[ws].info.channels # {} \/ ws \in Addressed)
      => sessions[ws].info.authenticated

\* With a token configured, a session that presented it and joined a channel
\* has been sent a sidechannel_message.
AddressedUnderToken ==
  /\ authToken # NULL
  /\ \E ws \in Addressed : sessions[ws].info.channels # {}

CountersMatchTables ==
  /\ activityStats.totalAgents = Cardinality(DOMAIN agents)
  /\ activityStats.totalTopics >= Cardinality(DOMAIN topics)
  /\ Len(messages) = Min(activityStats.totalMessages, MAX_MESSAGES)

CountersGrow ==
  /\ activityStats'.totalMessages >= activityStats.totalMessages
  /\ activityStats'.totalAgents >= activityStats.totalAgents
  /\ activityStats'.totalTopics >= activityStats.totalTopics

OfThisSend(added) ==
  {i \in Sidechannel(added) :
     /\ Has(added[i], "message")
     /\ added[i].message.seq = steps'
     /\ added[i].channel = LastField("channel")'}

====
